---- MODULE Spec2Model ----
(***************************************************************************)
(* Model of src/main.rs: the Control Loop (main), the Discovery Worker     *)
(* (background_discover_devices) and the Connection Worker                 *)
(* (background_connect_device) of the Bluetooth connector.                 *)
(*                                                                         *)
(* Scheduling.  main is #[tokio::main(flavor = "current_thread")]: the two *)
(* spawned workers run only while main is suspended at an await that       *)
(* actually yields (adapter.set_powered(..).await and sleep(..).await).    *)
(* Every action below is the code between two such suspension points.      *)
(* A worker whose recv() has a command waiting is in the runtime's run      *)
(* queue: the scheduler polls it before it turns the I/O and timer driver,  *)
(* so before main wakes up and before any adapter call of the other worker  *)
(* completes.  A worker that ends an operation with a command waiting goes  *)
(* on to it without yielding.  When an adapter call returns is up to the    *)
(* adapter.                                                                 *)
(* The tokio Mutex around bluetooth_connect_status is never held across an *)
(* await, so lock().await never waits and is part of the enclosing step.   *)
(*                                                                         *)
(* usize.  TLC integers are 32 bits wide, the target's usize is 64 bits.   *)
(* A usize value v is represented by its two's complement residue: 2^64-1  *)
(* (usize::MAX) is -1, 2^64-2 is -2, and small values are themselves, so   *)
(* wrapping +1 and -1 are ordinary +1 and -1.                              *)
(*                                                                         *)
(* A device record carries addr and connected.  name and paired are copied *)
(* into the record by the scan and never read by a decision of the code.   *)
(*                                                                         *)
(* Overflow.  len() - 1 on an empty Vec panics in a build with overflow    *)
(* checks and wraps to usize::MAX in a build without; both outcomes are    *)
(* explored at the expression.                                             *)
(*                                                                         *)
(* Devices are interchangeable.  A device that appears for the first time  *)
(* takes the least address that no part of the state refers to.            *)
(***************************************************************************)
EXTENDS Integers, Sequences, FiniteSets, TLC

\* ---- bounds -------------------------------------------------------------
NumAddrs == 2
MaxLen == 2
MaxInputs == 3
MaxToggles == 4
MaxRaceInputs == 4

\* ---- program constants ---------------------------------------------------
ChannelCapacity == 1
QuitFrames == 3

Addrs == 1..NumAddrs

VARIABLES
    pcMain,                          \* position of main
    is_running,
    quit_count,
    is_bluetooth_powered,
    selected_bluetooth_device_index,
    current_bluetooth_scan_status,
    inputs,                          \* events taken from poll_iter so far
    handled,                         \* the event the loop body handled last
    bluetooth_scan_status,
    bluetooth_devices,
    bluetooth_connect_status,
    discover_chan,                   \* commands pending on the scan channel
    connect_chan,                    \* indexes pending on the connect channel
    adapterConnected,                \* devices the adapter holds connected
    pcDisc,
    devices,                         \* the scan's Vec under construction
    pcConn,
    device_infos,                    \* the connect worker's working copy
    connIndex,                       \* selected_bluetooth_device_index received
    connCursor,                      \* position of the disconnect loop
    cycleLive,                       \* history: recorded and not removed this window
    sentInCycle,                     \* history: scan commands issued during the cycle
    racedPublish,                    \* history: scan published during the connect
    overwrote                        \* history: the Roster is a connect's publish over that scan's

mainVars == <<pcMain, is_running, quit_count, is_bluetooth_powered,
              selected_bluetooth_device_index, current_bluetooth_scan_status,
              inputs, handled>>
sharedVars == <<bluetooth_scan_status, bluetooth_devices,
                bluetooth_connect_status, discover_chan, connect_chan>>
discVars == <<pcDisc, devices, cycleLive>>
connVars == <<pcConn, device_infos, connIndex, connCursor>>
vars == <<mainVars, sharedVars, adapterConnected, discVars, connVars,
          sentInCycle, racedPublish, overwrote>>

\* ---- types ----------------------------------------------------------------
BluetoothScanStatus == {"Disable", "Scanning", "Finished", "Failed"}

FailedStatuses == {"Failed(disconnect)", "Failed(pair)", "Failed(connect)"}

BluetoothConnectStatus == {"Disable", "Connecting", "Finished"} \cup FailedStatuses

BluetoothDeviceInfo(a, c) == [addr |-> a, connected |-> c]

\* ---- helpers ----------------------------------------------------------------
\* devices.iter().find(|info| info.connected).is_some()
AnyConnected(v) == \E k \in 1..Len(v) : v[k].connected

\* Vec::remove(index)
RemoveAt(v, k) == SubSeq(v, 1, k - 1) \o SubSeq(v, k + 1, Len(v))

\* the DeviceRemoved arm: remove the first record with that address
RemoveFirst(v, a) ==
    IF \E k \in 1..Len(v) : v[k].addr = a
    THEN RemoveAt(v, CHOOSE k \in 1..Len(v) :
                        /\ v[k].addr = a
                        /\ \A j \in 1..(k - 1) : v[j].addr # a)
    ELSE v

\* slice indexing v[i] with a usize i (0-based): in range or panic
InRange(v, i) == 0 <= i /\ i < Len(v)

\* mutant of TrySend: the channel queues instead of dropping
TrySendUnbounded(chan, msg) == Append(chan, msg)

\* mpsc::Sender::try_send on a bounded channel: dropped when full
TrySend(chan, msg) ==
    IF Len(chan) < ChannelCapacity THEN Append(chan, msg) ELSE chan

\* first record at or after position k (1-based) still marked connected,
\* Len+1 when the disconnect loop has run off the end
NextConnected(v, k) ==
    IF \E j \in k..Len(v) : v[j].connected
    THEN CHOOSE j \in k..Len(v) :
            /\ v[j].connected
            /\ \A i \in k..(j - 1) : ~v[i].connected
    ELSE Len(v) + 1

\* main is parked at an await that yields to the runtime
Suspended == pcMain \in {"sleep", "set_powered_on", "set_powered_off"}

\* a worker is in the run queue: parked in recv() with a command waiting
Runnable ==
    \/ pcDisc = "recv" /\ discover_chan # <<>>
    \/ pcConn = "recv" /\ connect_chan # <<>>

\* the driver is turned: a timer or an adapter call can complete
DriverTurn == Suspended /\ ~Runnable

\* ---- initial state ----------------------------------------------------------
Init ==
    /\ is_bluetooth_powered \in BOOLEAN
    /\ adapterConnected \in {{}, {1}}
    /\ is_running = TRUE
    /\ quit_count = 0
    /\ bluetooth_scan_status = "Disable"
    /\ bluetooth_devices = <<>>
    /\ selected_bluetooth_device_index = 0
    /\ bluetooth_connect_status = "Disable"
    /\ discover_chan = IF is_bluetooth_powered THEN TrySend(<<>>, "scan") ELSE <<>>
    /\ connect_chan = <<>>
    /\ pcMain = "poll"
    /\ current_bluetooth_scan_status = "Disable"
    /\ inputs = 0
    /\ handled = "none"
    /\ pcDisc = "recv"
    /\ devices = <<>>
    /\ pcConn = "recv"
    /\ device_infos = <<>>
    /\ connIndex = 0
    /\ connCursor = 1
    /\ cycleLive = {}
    /\ sentInCycle = 0
    /\ racedPublish = FALSE
    /\ overwrote = FALSE

\* ---- Control Loop -------------------------------------------------------------
workerVars == <<adapterConnected, discVars, connVars, racedPublish, overwrote>>

\* line 154: poll_iter yields another event
Polling(limit) == pcMain = "poll" /\ inputs < limit

\* lines 157-162
HandleQuit ==
    /\ Polling(MaxInputs)
    /\ inputs' = inputs + 1
    /\ handled' = "Quit"
    /\ is_running' = FALSE
    /\ UNCHANGED <<pcMain, quit_count, is_bluetooth_powered,
                   selected_bluetooth_device_index, current_bluetooth_scan_status,
                   sharedVars, workerVars, sentInCycle>>

\* lines 165-171: up to the await of adapter.set_powered(true)
HandlePowerOn(limit) ==
    /\ Polling(limit)
    /\ inputs' = inputs + 1
    /\ handled' = "PowerOn"
    /\ pcMain' = IF is_bluetooth_powered THEN "poll" ELSE "set_powered_on"
    /\ UNCHANGED <<is_running, quit_count, is_bluetooth_powered,
                   selected_bluetooth_device_index, current_bluetooth_scan_status,
                   sharedVars, workerVars, sentInCycle>>

\* lines 171-176: set_powered(true) returned
PowerOnDone(ok) ==
    /\ pcMain = "set_powered_on"
    /\ DriverTurn
    /\ IF ok
       THEN /\ pcMain' = "poll"
            /\ is_bluetooth_powered' = TRUE
            /\ bluetooth_scan_status' = "Disable"
            /\ selected_bluetooth_device_index' = 0
            /\ discover_chan' = TrySend(discover_chan, "scan")
            /\ sentInCycle' = IF pcDisc \in {"open", "window"} /\ sentInCycle < 2
                               THEN sentInCycle + 1
                               ELSE sentInCycle
       ELSE /\ pcMain' = "failed"
            /\ UNCHANGED <<is_bluetooth_powered, bluetooth_scan_status,
                           selected_bluetooth_device_index, discover_chan,
                           sentInCycle>>
    /\ UNCHANGED <<is_running, quit_count, current_bluetooth_scan_status,
                   inputs, handled, bluetooth_devices,
                   bluetooth_connect_status, connect_chan, workerVars>>

\* lines 180-186: up to the await of adapter.set_powered(false)
HandlePowerOff(limit) ==
    /\ Polling(limit)
    /\ inputs' = inputs + 1
    /\ handled' = "PowerOff"
    /\ pcMain' = IF is_bluetooth_powered THEN "set_powered_off" ELSE "poll"
    /\ UNCHANGED <<is_running, quit_count, is_bluetooth_powered,
                   selected_bluetooth_device_index, current_bluetooth_scan_status,
                   sharedVars, workerVars, sentInCycle>>

\* lines 186-189: set_powered(false) returned
PowerOffDone(ok) ==
    /\ pcMain = "set_powered_off"
    /\ DriverTurn
    /\ IF ok
       THEN /\ pcMain' = "poll"
            /\ is_bluetooth_powered' = FALSE
            /\ bluetooth_scan_status' = "Disable"
            /\ selected_bluetooth_device_index' = 0
       ELSE /\ pcMain' = "failed"
            /\ UNCHANGED <<is_bluetooth_powered, bluetooth_scan_status,
                           selected_bluetooth_device_index>>
    /\ UNCHANGED <<is_running, quit_count, current_bluetooth_scan_status,
                   inputs, handled, bluetooth_devices,
                   bluetooth_connect_status, discover_chan, connect_chan,
                   workerVars, sentInCycle>>

\* bluetooth_devices.load().len() - 1 underflows on an empty Roster
LenMinusOneOverflows == Len(bluetooth_devices) = 0

\* the guard of lines 195, 208 and 220
NavigationAllowed == current_bluetooth_scan_status = "Finished"

\* lines 193-203
UpIndex ==
    IF selected_bluetooth_device_index = 0
    THEN Len(bluetooth_devices) - 1
    ELSE selected_bluetooth_device_index - 1

HandleUp(limit, overflow_checks) ==
    /\ Polling(limit)
    /\ inputs' = inputs + 1
    /\ handled' = "Up"
    /\ IF ~NavigationAllowed
       THEN UNCHANGED <<pcMain, selected_bluetooth_device_index>>
       ELSE IF selected_bluetooth_device_index = 0 /\ LenMinusOneOverflows
                 /\ overflow_checks
            THEN /\ pcMain' = "panicked"
                 /\ UNCHANGED selected_bluetooth_device_index
            ELSE /\ selected_bluetooth_device_index' = UpIndex
                 /\ UNCHANGED pcMain
    /\ UNCHANGED <<is_running, quit_count, is_bluetooth_powered,
                   current_bluetooth_scan_status,
                   sharedVars, workerVars, sentInCycle>>

\* lines 206-216
DownIndex ==
    IF selected_bluetooth_device_index = Len(bluetooth_devices) - 1
    THEN 0
    ELSE selected_bluetooth_device_index + 1

HandleDown(overflow_checks) ==
    /\ Polling(MaxInputs)
    /\ inputs' = inputs + 1
    /\ handled' = "Down"
    /\ IF ~NavigationAllowed
       THEN UNCHANGED <<pcMain, selected_bluetooth_device_index>>
       ELSE IF LenMinusOneOverflows /\ overflow_checks
            THEN /\ pcMain' = "panicked"
                 /\ UNCHANGED selected_bluetooth_device_index
            ELSE /\ selected_bluetooth_device_index' = DownIndex
                 /\ UNCHANGED pcMain
    /\ UNCHANGED <<is_running, quit_count, is_bluetooth_powered,
                   current_bluetooth_scan_status,
                   sharedVars, workerVars, sentInCycle>>

\* mutant of ConnectAllowed: the check of line 223 is missing
ConnectAllowedNoBusyCheck == current_bluetooth_scan_status = "Finished"

\* lines 220-225: the connect input is let through
ConnectAllowed ==
    /\ current_bluetooth_scan_status = "Finished"
    /\ bluetooth_connect_status # "Connecting"

\* lines 218-228
HandleConnect(limit) ==
    /\ Polling(limit)
    /\ inputs' = inputs + 1
    /\ handled' = "Connect"
    /\ connect_chan' = IF ConnectAllowed
                       THEN TrySend(connect_chan, selected_bluetooth_device_index)
                       ELSE connect_chan
    /\ UNCHANGED <<pcMain, is_running, quit_count, is_bluetooth_powered,
                   selected_bluetooth_device_index, current_bluetooth_scan_status,
                   bluetooth_scan_status, bluetooth_devices,
                   bluetooth_connect_status, discover_chan, workerVars,
                   sentInCycle>>

\* lines 235-343: poll_iter is exhausted, the frame is drawn, main sleeps.
\* Line 300 indexes the Roster with the selection index.
Render ==
    /\ pcMain = "poll"
    /\ pcMain' = IF /\ is_running
                    /\ current_bluetooth_scan_status = "Finished"
                    /\ ~InRange(bluetooth_devices, selected_bluetooth_device_index)
                 THEN "panicked"
                 ELSE "sleep"
    /\ handled' = "none"
    /\ UNCHANGED <<is_running, quit_count, is_bluetooth_powered,
                   selected_bluetooth_device_index, current_bluetooth_scan_status,
                   inputs, sharedVars, workerVars,
                   sentInCycle>>

\* lines 343-351 and 149-153: the sleep is over; unless the loop breaks the
\* next frame starts and samples Scan Status once.  A frame of a loop that
\* is quitting polls nothing and draws no Roster: it runs on to its sleep.
Wake ==
    /\ pcMain = "sleep"
    /\ DriverTurn
    /\ IF is_running
       THEN /\ pcMain' = "poll"
            /\ current_bluetooth_scan_status' = bluetooth_scan_status
            /\ UNCHANGED quit_count
       ELSE /\ quit_count' = quit_count + 1
            /\ IF quit_count' > QuitFrames
               THEN /\ pcMain' = "exited"
                    /\ UNCHANGED current_bluetooth_scan_status
               ELSE /\ pcMain' = "sleep"
                    /\ current_bluetooth_scan_status' = bluetooth_scan_status
    /\ UNCHANGED <<is_running, is_bluetooth_powered,
                   selected_bluetooth_device_index, inputs, handled,
                   sharedVars, workerVars, sentInCycle>>

\* ---- Discovery Worker ---------------------------------------------------------
\* lines 364-371: a command is received, the cycle starts
DiscRecv ==
    /\ Suspended
    /\ pcDisc = "recv"
    /\ discover_chan # <<>>
    /\ discover_chan' = Tail(discover_chan)
    /\ bluetooth_scan_status' = "Scanning"
    /\ pcDisc' = "open"
    /\ sentInCycle' = 0
    /\ UNCHANGED <<mainVars, bluetooth_devices, bluetooth_connect_status,
                   connect_chan, adapterConnected, devices, cycleLive,
                   connVars, racedPublish, overwrote>>

\* mutant of DiscOpen: the failure path stores an empty Roster
DiscOpenStoresEmpty(ok) ==
    /\ DriverTurn
    /\ pcDisc = "open"
    /\ IF ok
       THEN /\ pcDisc' = "window"
            /\ UNCHANGED <<bluetooth_scan_status, sentInCycle, bluetooth_devices>>
       ELSE /\ pcDisc' = "recv"
            /\ bluetooth_scan_status' = "Failed"
            /\ sentInCycle' = 0
            /\ bluetooth_devices' = <<>>
    /\ devices' = <<>>
    /\ cycleLive' = {}
    /\ UNCHANGED <<mainVars, bluetooth_connect_status,
                   discover_chan, connect_chan, adapterConnected, connVars,
                   racedPublish, overwrote>>

\* lines 371-374 and 439-442: adapter.discover_devices() returned
DiscOpen(ok) ==
    /\ DriverTurn
    /\ pcDisc = "open"
    /\ IF ok
       THEN /\ pcDisc' = "window"
            /\ UNCHANGED <<bluetooth_scan_status, sentInCycle>>
       ELSE /\ pcDisc' = "recv"
            /\ bluetooth_scan_status' = "Failed"
            /\ sentInCycle' = 0
    /\ devices' = <<>>
    /\ cycleLive' = {}
    /\ UNCHANGED <<mainVars, bluetooth_devices, bluetooth_connect_status,
                   discover_chan, connect_chan, adapterConnected, connVars,
                   racedPublish, overwrote>>

\* the addresses some part of the state refers to
KnownAddrs ==
    {devices[k].addr : k \in 1..Len(devices)}
        \cup {bluetooth_devices[k].addr : k \in 1..Len(bluetooth_devices)}
        \cup {device_infos[k].addr : k \in 1..Len(device_infos)}
        \cup adapterConnected

\* the addresses a DeviceAdded event can carry: a known device, or the next
\* new one
Appearing ==
    {a \in Addrs : a \in KnownAddrs \/ \A b \in Addrs \ KnownAddrs : a <= b}

\* lines 379-414: DeviceAdded(addr).  When the device lookup or the property
\* fetch fails the event is skipped; otherwise the record's connected flag
\* is the Connected property the adapter reports.
DiscDeviceAdded(a, ok) ==
    /\ DriverTurn
    /\ pcDisc = "window"
    /\ a \in Appearing
    /\ IF ok
       THEN /\ Len(devices) < MaxLen
            /\ devices' = Append(devices, BluetoothDeviceInfo(a, a \in adapterConnected))
            /\ cycleLive' = cycleLive \cup {a}
       ELSE UNCHANGED <<devices, cycleLive>>
    /\ UNCHANGED <<mainVars, sharedVars, adapterConnected, pcDisc, connVars,
                   sentInCycle, racedPublish, overwrote>>

\* lines 415-422: DeviceRemoved(addr)
DiscDeviceRemoved(a) ==
    /\ DriverTurn
    /\ pcDisc = "window"
    /\ devices' = RemoveFirst(devices, a)
    /\ cycleLive' = cycleLive \ {a}
    /\ UNCHANGED <<mainVars, sharedVars, adapterConnected, pcDisc,
                   connVars, sentInCycle, racedPublish, overwrote>>

\* lines 426-436: the window elapsed or the stream ended; reconcile, publish
DiscPublish ==
    /\ DriverTurn
    /\ pcDisc = "window"
    /\ bluetooth_connect_status' = IF AnyConnected(devices)
                                   THEN "Finished"
                                   ELSE bluetooth_connect_status
    /\ bluetooth_devices' = devices
    /\ bluetooth_scan_status' = "Finished"
    /\ pcDisc' = "recv"
    /\ devices' = <<>>
    /\ cycleLive' = {}
    /\ sentInCycle' = 0
    /\ racedPublish' = TRUE
    /\ overwrote' = FALSE
    /\ UNCHANGED <<mainVars, discover_chan, connect_chan, adapterConnected,
                   connVars>>

\* ---- Connection Worker ----------------------------------------------------------
\* line 489: back at rx.recv(); the working copy and the index are dropped
ConnIdle ==
    /\ pcConn' = "recv"
    /\ device_infos' = <<>>
    /\ connIndex' = 0
    /\ connCursor' = 1

\* lines 499-509 from loop position k: run to the next disconnect().await,
\* or off the end of the loop to the index at line 509 and is_paired().await
ConnAdvance(infos, k) ==
    IF NextConnected(infos, k) <= Len(infos)
    THEN /\ pcConn' = "disconnect"
         /\ connCursor' = NextConnected(infos, k)
    ELSE /\ pcConn' = IF InRange(infos, connIndex') THEN "pair" ELSE "panicked"
         /\ connCursor' = Len(infos) + 1

\* lines 489-496: an index is received, the Roster is copied
ConnRecv ==
    /\ Suspended
    /\ pcConn = "recv"
    /\ connect_chan # <<>>
    /\ connIndex' = Head(connect_chan)
    /\ connect_chan' = Tail(connect_chan)
    /\ bluetooth_connect_status' = "Connecting"
    /\ device_infos' = bluetooth_devices
    /\ ConnAdvance(bluetooth_devices, 1)
    /\ racedPublish' = FALSE
    /\ overwrote' = FALSE
    /\ UNCHANGED <<mainVars, bluetooth_scan_status, bluetooth_devices,
                   discover_chan, adapterConnected, discVars, sentInCycle>>

\* lines 503-506: device.disconnect() returned
ConnDisconnect(ok) ==
    /\ DriverTurn
    /\ pcConn = "disconnect"
    /\ IF ok
       THEN /\ adapterConnected' = adapterConnected \ {device_infos[connCursor].addr}
            /\ device_infos' = [device_infos EXCEPT ![connCursor].connected = FALSE]
            /\ connIndex' = connIndex
            /\ ConnAdvance(device_infos', connCursor + 1)
            /\ UNCHANGED bluetooth_connect_status
       ELSE /\ bluetooth_connect_status' = "Failed(disconnect)"
            /\ ConnIdle
            /\ UNCHANGED adapterConnected
    /\ UNCHANGED <<mainVars, bluetooth_scan_status, bluetooth_devices,
                   discover_chan, connect_chan, discVars, sentInCycle,
                   racedPublish, overwrote>>

\* lines 511-513: is_paired() and, when needed, pair() returned
ConnPair(ok) ==
    /\ DriverTurn
    /\ pcConn = "pair"
    /\ IF ok
       THEN /\ pcConn' = "connect"
            /\ UNCHANGED <<bluetooth_connect_status, device_infos, connIndex,
                           connCursor>>
       ELSE /\ bluetooth_connect_status' = "Failed(pair)"
            /\ ConnIdle
    /\ UNCHANGED <<mainVars, bluetooth_scan_status, bluetooth_devices,
                   discover_chan, connect_chan, adapterConnected, discVars,
                   sentInCycle, racedPublish, overwrote>>

\* mutant of MarkTarget: the first record is marked, not the selected one
MarkTargetFirst(infos, i) == [infos EXCEPT ![1].connected = TRUE]

\* lines 519-521: the working copy with the target marked
MarkTarget(infos, i) == [infos EXCEPT ![i + 1].connected = TRUE]

\* lines 515-525: is_connected() and, when needed, connect() returned
ConnConnect(ok) ==
    /\ DriverTurn
    /\ pcConn = "connect"
    /\ ConnIdle
    /\ IF ok
       THEN /\ adapterConnected' = adapterConnected \cup {device_infos[connIndex + 1].addr}
            /\ bluetooth_devices' = MarkTarget(device_infos, connIndex)
            /\ bluetooth_connect_status' = "Finished"
       ELSE /\ bluetooth_connect_status' = "Failed(connect)"
            /\ UNCHANGED <<adapterConnected, bluetooth_devices>>
    /\ overwrote' = (ok /\ racedPublish)
    /\ UNCHANGED <<mainVars, bluetooth_scan_status, discover_chan, connect_chan,
                   discVars, sentInCycle, racedPublish>>

\* ---- specification ----------------------------------------------------------
Next ==
    \/ HandleQuit
    \/ HandlePowerOn(MaxInputs)
    \/ \E ok \in BOOLEAN : PowerOnDone(ok)
    \/ HandlePowerOff(MaxInputs)
    \/ \E ok \in BOOLEAN : PowerOffDone(ok)
    \/ \E overflow_checks \in BOOLEAN : HandleUp(MaxInputs, overflow_checks)
    \/ \E overflow_checks \in BOOLEAN : HandleDown(overflow_checks)
    \/ HandleConnect(MaxInputs)
    \/ Render
    \/ Wake
    \/ DiscRecv
    \/ \E ok \in BOOLEAN : DiscOpen(ok)
    \/ \E a \in Addrs, ok \in BOOLEAN : DiscDeviceAdded(a, ok)
    \/ \E a \in Addrs : DiscDeviceRemoved(a)
    \/ DiscPublish
    \/ ConnRecv
    \/ \E ok \in BOOLEAN : ConnDisconnect(ok)
    \/ \E ok \in BOOLEAN : ConnPair(ok)
    \/ \E ok \in BOOLEAN : ConnConnect(ok)

Spec == Init /\ [][Next]_vars

\* the program driven by power inputs only: the inputs that issue scan commands
NextPower ==
    \/ HandlePowerOn(MaxToggles)
    \/ \E ok \in BOOLEAN : PowerOnDone(ok)
    \/ HandlePowerOff(MaxToggles)
    \/ \E ok \in BOOLEAN : PowerOffDone(ok)
    \/ Render
    \/ Wake
    \/ DiscRecv
    \/ \E ok \in BOOLEAN : DiscOpen(ok)
    \/ \E a \in Addrs, ok \in BOOLEAN : DiscDeviceAdded(a, ok)
    \/ \E a \in Addrs : DiscDeviceRemoved(a)
    \/ DiscPublish

SpecPower == Init /\ [][NextPower]_vars

\* the program driven by the inputs that set a scan cycle against a connect
\* operation (power, connect, up), with devices that appear and stay
NextRace ==
    \/ HandlePowerOn(MaxRaceInputs)
    \/ \E ok \in BOOLEAN : PowerOnDone(ok)
    \/ HandlePowerOff(MaxRaceInputs)
    \/ \E ok \in BOOLEAN : PowerOffDone(ok)
    \/ \E overflow_checks \in BOOLEAN : HandleUp(MaxRaceInputs, overflow_checks)
    \/ HandleConnect(MaxRaceInputs)
    \/ Render
    \/ Wake
    \/ DiscRecv
    \/ \E ok \in BOOLEAN : DiscOpen(ok)
    \/ \E a \in Addrs, ok \in BOOLEAN : DiscDeviceAdded(a, ok)
    \/ DiscPublish
    \/ ConnRecv
    \/ \E ok \in BOOLEAN : ConnDisconnect(ok)
    \/ \E ok \in BOOLEAN : ConnPair(ok)
    \/ \E ok \in BOOLEAN : ConnConnect(ok)

SpecRace == Init /\ [][NextRace]_vars

\* main runs on: a frame is drawn, a sleep ends, set_powered() returns
MainStep ==
    \/ Render
    \/ Wake
    \/ \E ok \in BOOLEAN : PowerOnDone(ok)
    \/ \E ok \in BOOLEAN : PowerOffDone(ok)

\* the Discovery Worker is scheduled, discover_devices() returns, the window
\* of main.rs:376 elapses
DiscStep ==
    \/ DiscRecv
    \/ \E ok \in BOOLEAN : DiscOpen(ok)
    \/ DiscPublish

\* the Connection Worker is scheduled and each adapter call it awaits returns
ConnStep ==
    \/ ConnRecv
    \/ \E ok \in BOOLEAN : ConnDisconnect(ok)
    \/ \E ok \in BOOLEAN : ConnPair(ok)
    \/ \E ok \in BOOLEAN : ConnConnect(ok)

\* the program under a fair scheduler with adapter calls and timers that
\* return.  A worker's step can be taken only while main is parked at an
\* await, that is on and off: a worker that can step again and again does
\* step (strong fairness).
SpecFair ==
    /\ Init
    /\ [][NextRace]_vars
    /\ WF_vars(MainStep)
    /\ SF_vars(DiscStep)
    /\ SF_vars(ConnStep)

TypeOK ==
    /\ pcMain \in {"poll", "set_powered_on", "set_powered_off", "sleep",
                   "panicked", "failed", "exited"}
    /\ bluetooth_scan_status \in BluetoothScanStatus
    /\ bluetooth_connect_status \in BluetoothConnectStatus
    /\ Len(discover_chan) <= ChannelCapacity
    /\ Len(connect_chan) <= ChannelCapacity
    /\ pcDisc \in {"recv", "open", "window"}
    /\ pcConn \in {"recv", "disconnect", "pair", "connect", "panicked"}

\* ---- claims -------------------------------------------------------------------
ConnectedCount(v) == Cardinality({k \in 1..Len(v) : v[k].connected})

AddrSet(v) == {v[k].addr : k \in 1..Len(v)}

\* an event of that kind was taken from poll_iter and handled in this step
InputHandled(kinds) == inputs' # inputs /\ handled' \in kinds

\* C1: in every reachable state the published Roster has at most one record
\* with connected = true.
C1_AtMostOneConnected == ConnectedCount(bluetooth_devices) <= 1

\* C2: the Roster a scan cycle publishes holds exactly the devices added
\* (property fetch succeeding) and not subsequently removed, each identifier
\* exactly once.
C2_PublishedIsLiveSet ==
    [][(pcDisc = "window" /\ pcDisc' = "recv")
        => /\ AddrSet(bluetooth_devices') = cycleLive
           /\ Len(bluetooth_devices') = Cardinality(cycleLive)]_vars

\* C3: in every frame where the Control Loop indexes the Roster with the
\* selection index, the index is within [0, roster length).  Stated for reads
\* of a non-empty Roster, where an index can only be out of range because the
\* Roster it was moved on was longer.
C3_IndexInRangeAtRead ==
    [][(pcMain = "poll" /\ pcMain' # "poll" /\ inputs' = inputs /\ is_running
        /\ current_bluetooth_scan_status = "Finished"
        /\ Len(bluetooth_devices) > 0)
        => InRange(bluetooth_devices, selected_bluetooth_device_index)]_vars

\* C4: once a scan cycle has completed with no devices (Scan Status Finished,
\* Roster empty) the selection index stays 0 and the Control Loop keeps
\* running.
C4_EmptyRosterKeepsRunning ==
    (bluetooth_scan_status = "Finished" /\ Len(bluetooth_devices) = 0)
        => (pcMain # "panicked" /\ selected_bluetooth_device_index = 0)

\* C5: a connect input handled while Connect Status = Connecting places no
\* command on the connect channel and changes neither the Roster, nor a
\* status, nor the Connection Worker.
C5_ConnectWhileConnectingDropped ==
    [][(InputHandled({"Connect"}) /\ bluetooth_connect_status = "Connecting")
        => UNCHANGED <<connect_chan, bluetooth_devices, bluetooth_scan_status,
                       bluetooth_connect_status, connVars>>]_vars

\* C5 witness: a connect input was just handled while Connecting, with Scan
\* Status sampled Finished and room on the channel, and nothing was sent.
C5_Witness ==
    /\ pcMain = "poll"
    /\ handled = "Connect"
    /\ bluetooth_connect_status = "Connecting"
    /\ current_bluetooth_scan_status = "Finished"
    /\ connect_chan = <<>>
    /\ pcConn \in {"disconnect", "pair", "connect"}

\* C6: a navigation input handled while Scan Status is not Finished leaves the
\* selection index unchanged.
C6_NavigationOnlyWhenFinished ==
    [][(InputHandled({"Up", "Down"}) /\ bluetooth_scan_status # "Finished")
        => selected_bluetooth_device_index' = selected_bluetooth_device_index]_vars

\* C7: whenever the Discovery Worker begins a scan cycle (Scan Status becomes
\* Scanning) the selection index is 0.
C7_IndexZeroAtScanStart ==
    [][(pcDisc = "recv" /\ pcDisc' = "open")
        => selected_bluetooth_device_index = 0]_vars

\* C8: never more than one scan command is pending, and two or more commands
\* issued while the Discovery Worker is in a cycle leave exactly one pending,
\* that is one further cycle.
C8_ScanCommandsCoalesce ==
    /\ Len(discover_chan) <= 1
    /\ (pcDisc \in {"open", "window"} /\ sentInCycle >= 2)
          => Len(discover_chan) = 1

\* C8 witness: two commands were issued during the cycle in flight.
C8_Witness ==
    /\ pcDisc \in {"open", "window"}
    /\ sentInCycle >= 2
    /\ Len(discover_chan) = 1

\* C9: while the radio is off, no scan cycle completes into view: Scan Status
\* is neither Finished nor Failed.
C9_NoScanResultWhileRadioOff ==
    (~is_bluetooth_powered /\ pcMain # "set_powered_on")
        => bluetooth_scan_status \notin {"Finished", "Failed"}

\* the Roster before the attempt with only record i (0-based) connected
OnlyConnected(v, i) ==
    [k \in 1..Len(v) |-> BluetoothDeviceInfo(v[k].addr, k = i + 1)]

\* C10: a connect operation that ends without a failure and without a scan
\* publish since it took its copy leaves Connect Status = Finished and the
\* Roster it started from, same devices in the same order, with record i
\* connected and every other record not connected.
C10_ConnectSuccessMarksOnlyTarget ==
    [][(pcConn = "connect" /\ pcConn' = "recv" /\ ~racedPublish
        /\ bluetooth_connect_status' \notin FailedStatuses)
        => /\ bluetooth_connect_status' = "Finished"
           /\ bluetooth_devices' = OnlyConnected(bluetooth_devices, connIndex)]_vars

\* C10 witness: the scenario [A, B], index 1 after a successful attempt that
\* had to disconnect A.
C10_Witness ==
    /\ pcConn = "recv"
    /\ ~racedPublish
    /\ bluetooth_connect_status = "Finished"
    /\ Len(bluetooth_devices) = 2
    /\ bluetooth_devices[1].addr # bluetooth_devices[2].addr
    /\ ~bluetooth_devices[1].connected
    /\ bluetooth_devices[2].connected
    /\ adapterConnected = {bluetooth_devices[2].addr}

\* the Connection Worker's operation ends in this step with a failure of one
\* of the given steps, no scan publish having happened since it took its copy
ConnFails(steps) ==
    /\ pcConn \in steps
    /\ pcConn' = "recv"
    /\ bluetooth_connect_status' \in FailedStatuses
    /\ ~racedPublish

\* C11: a connect operation whose pair step or connect step fails ends with
\* Connect Status = Failed(reason) and with the target's connected flag false
\* in the published Roster, whatever the flag was before the attempt.
C11_FailedTargetNotConnected ==
    [][ConnFails({"pair", "connect"})
        => /\ bluetooth_connect_status' \in {"Failed(pair)", "Failed(connect)"}
           /\ InRange(bluetooth_devices', connIndex)
           /\ ~bluetooth_devices'[connIndex + 1].connected]_vars

\* the records (1-based) the running operation has disconnected: connected in
\* the Roster it copied, cleared in its working copy
Disconnected ==
    {k \in 1..Len(device_infos) :
        /\ k <= Len(bluetooth_devices)
        /\ bluetooth_devices[k].connected
        /\ ~device_infos[k].connected}

\* C12: when a connect operation disconnected the previously connected device
\* and then fails at a later step, the published Roster afterwards does not
\* mark the disconnected device connected, and every other connected flag is
\* as before the attempt.
C12_FailureKeepsDisconnect ==
    [][ConnFails({"disconnect", "pair", "connect"})
        => /\ Len(bluetooth_devices') = Len(bluetooth_devices)
           /\ \A k \in 1..Len(bluetooth_devices) :
                 bluetooth_devices'[k].connected =
                    (bluetooth_devices[k].connected /\ k \notin Disconnected)]_vars

\* C13: a scan cycle that hits an adapter-level error sets Scan Status to
\* Failed and replaces nothing: its steps leave the Roster and Connect Status
\* as they were.  A completed cycle replaces the Roster exactly once, with its
\* device list, in the step that ends it; no other step of a cycle touches
\* the Roster.
C13_FailedScanKeepsRoster ==
    [][/\ (pcDisc = "open" /\ pcDisc' = "recv")
            => /\ bluetooth_scan_status' = "Failed"
               /\ UNCHANGED <<bluetooth_devices, bluetooth_connect_status>>
       /\ (discVars' # discVars /\ ~(pcDisc = "window" /\ pcDisc' = "recv"))
            => UNCHANGED <<bluetooth_devices, bluetooth_connect_status>>
       /\ (pcDisc = "window" /\ pcDisc' = "recv")
            => /\ bluetooth_devices' = devices
               /\ bluetooth_scan_status' = "Finished"]_vars

\* C13 witness: a cycle has failed while a Roster published by an earlier
\* cycle is in place.
C13_Witness ==
    /\ pcDisc = "recv"
    /\ bluetooth_scan_status = "Failed"
    /\ Len(bluetooth_devices) > 0

\* C14: neither worker terminates because of an operation's outcome: whatever
\* commands and adapter failures occurred, and with whatever index and Roster
\* a connect command reaches the worker, each worker is in its receive loop or
\* in an operation that returns to it.
C14_WorkersNeverTerminate ==
    /\ pcDisc \in {"recv", "open", "window"}
    /\ pcConn \in {"recv", "disconnect", "pair", "connect"}

\* C15: immediately after the Control Loop has handled a power-off request
\* (set_powered(false) returned and lines 187-189 ran) Scan Status is Disabled
\* and Connect Status is Disabled.
C15_PowerOffClearsBothStatuses ==
    [][(pcMain = "set_powered_off" /\ pcMain' = "poll")
        => /\ bluetooth_scan_status' = "Disable"
           /\ bluetooth_connect_status' = "Disable"]_vars

\* the changes of Scan Status the state machine allows
ScanTransitions ==
    {<<"Disable", "Scanning">>, <<"Scanning", "Finished">>,
     <<"Scanning", "Failed">>, <<"Finished", "Scanning">>,
     <<"Failed", "Scanning">>}
        \cup {<<s, "Disable">> : s \in BluetoothScanStatus}

\* C16: Scan Status only changes along Disabled -> Scanning, Scanning ->
\* Finished, Scanning -> Failed, Finished or Failed -> Scanning, any ->
\* Disabled; in particular never from Disabled directly to Finished or Failed.
C16_ScanStatusTransitions ==
    [][bluetooth_scan_status' # bluetooth_scan_status
        => <<bluetooth_scan_status, bluetooth_scan_status'>> \in ScanTransitions]_vars

\* C17: at the moment a connect command is placed on the connect channel the
\* shared Scan Status equals Finished.
C17_ConnectSentOnlyWhenFinished ==
    [][Len(connect_chan') > Len(connect_chan)
        => bluetooth_scan_status = "Finished"]_vars

\* C18: when the Discovery Worker published a Roster after the Connection
\* Worker took its working copy, the Connection Worker's successful publish is
\* that working copy with the target marked connected (last publish wins, a
\* whole value, no mix with the scan's Roster), and with that Roster in place
\* neither a worker nor the Control Loop crashes.
C18_LastPublishWins ==
    /\ [][(pcConn = "connect" /\ pcConn' = "recv" /\ racedPublish
           /\ bluetooth_connect_status' \notin FailedStatuses)
           => bluetooth_devices' =
                 [device_infos EXCEPT ![connIndex + 1].connected = TRUE]]_vars
    /\ [](overwrote => /\ pcMain # "panicked"
                       /\ pcConn # "panicked"
                       /\ pcDisc \in {"recv", "open", "window"})

\* the runtime is gone: main panicked, returned an error, or left its loop
MainEnded == pcMain \in {"panicked", "failed", "exited"}

\* C19: every accepted connect command runs to completion.  With adapter
\* calls that return and a fair scheduler, a Connection Worker that took a
\* command is eventually back at its receive with Connect Status set to
\* Finished or Failed by it (as long as the program runs), and it takes a
\* command only from that receive.
C19_ConnectRunsToCompletion ==
    /\ (pcConn # "recv") ~> (pcConn = "recv" \/ MainEnded)
    /\ [][Len(connect_chan') < Len(connect_chan)
           => (pcConn = "recv" /\ bluetooth_connect_status' = "Connecting")]_vars
    /\ [][(pcConn # "recv" /\ pcConn' = "recv")
           => bluetooth_connect_status' \in {"Finished"} \cup FailedStatuses]_vars

\* C20: whenever the Connection Worker is mid-operation (between taking a
\* command and setting the outcome) Connect Status is Connecting, and no
\* further connect command is queued behind the running operation.
C20_ConnectingWhileMidOperation ==
    pcConn \in {"disconnect", "pair", "connect"}
        => /\ bluetooth_connect_status = "Connecting"
           /\ connect_chan = <<>>

\* C21: whenever both workers are idle (each at its receive) and Connect
\* Status is Finished, the published Roster contains a record with
\* connected = true.
C21_FinishedImpliesConnectedRecord ==
    (pcDisc = "recv" /\ pcConn = "recv" /\ bluetooth_connect_status = "Finished")
        => AnyConnected(bluetooth_devices)
====
